---- MODULE Spec2Model ----
(***************************************************************************)
(* Model of bouffalo-hal's Global peripheral (src/src/glb.rs): the        *)
(* RegisterBlock layout, the GPIO_CONFIG slots with their volatile read   *)
(* and write, and the GpioConfig codec with its enumerations.             *)
(*                                                                         *)
(* A u32 is modelled as the set of the bit positions that hold 1          *)
(* (a subset of 0..31): the word 1 << 6 is {6}, 0x3 << 2 is {2, 3}.       *)
(* Bitwise and / or / not are intersection / union / complement, and a    *)
(* shift moves every position, dropping those that leave the word.        *)
(***************************************************************************)
EXTENDS Integers, FiniteSets, Sequences, TLC

----------------------------------------------------------------------------
\* u32 arithmetic

\* Width of the word behind GpioConfig and GPIO_CONFIG.
U32Bits == 32

\* Width of the enumerations' representation (#[repr(u8)]).
U8Bits == 8

BitPos == 0 .. (U32Bits - 1)

Word == SUBSET BitPos

BitAnd(a, b) == a \cap b

BitOr(a, b) == a \cup b

BitNot(a) == BitPos \ a

Shl(a, k) == {i + k : i \in a} \cap BitPos

Shr(a, k) == {i - k : i \in {j \in a : j >= k}}

\* `n as u32` of a u8 value n, and an integer literal below 256.
AsU32(n) == {i \in 0 .. (U8Bits - 1) : (n \div (2 ^ i)) % 2 = 1}

RECURSIVE ToNat(_)
\* The number a (small) word stands for.
ToNat(w) ==
    IF w = {} THEN 0
    ELSE LET i == CHOOSE j \in w : TRUE
         IN (2 ^ i) + ToNat(w \ {i})

----------------------------------------------------------------------------
\* Enumerations and their discriminants

Drive == {"Drive0", "Drive1", "Drive2", "Drive3"}

DriveCode(v) ==
    CASE v = "Drive0" -> 0
      [] v = "Drive1" -> 1
      [] v = "Drive2" -> 2
      [] v = "Drive3" -> 3

Function ==
    {"Sdh", "Spi0", "Flash", "I2s", "Pdm", "I2c0", "I2c1", "Uart", "Emac",
     "Cam", "Analog", "Gpio", "Pwm0", "Pwm1", "Spi1", "I2c2", "I2c3",
     "MmUart", "DbiB", "DbiC", "Dpi", "JtagLp", "JtagM0", "JtagD0",
     "ClockOut"}

FunctionCode(v) ==
    CASE v = "Sdh" -> 0
      [] v = "Spi0" -> 1
      [] v = "Flash" -> 2
      [] v = "I2s" -> 3
      [] v = "Pdm" -> 4
      [] v = "I2c0" -> 5
      [] v = "I2c1" -> 6
      [] v = "Uart" -> 7
      [] v = "Emac" -> 8
      [] v = "Cam" -> 9
      [] v = "Analog" -> 10
      [] v = "Gpio" -> 11
      [] v = "Pwm0" -> 16
      [] v = "Pwm1" -> 17
      [] v = "Spi1" -> 18
      [] v = "I2c2" -> 19
      [] v = "I2c3" -> 20
      [] v = "MmUart" -> 21
      [] v = "DbiB" -> 22
      [] v = "DbiC" -> 23
      [] v = "Dpi" -> 24
      [] v = "JtagLp" -> 25
      [] v = "JtagM0" -> 26
      [] v = "JtagD0" -> 27
      [] v = "ClockOut" -> 31

InterruptMode ==
    {"SyncFallingEdge", "SyncRisingEdge", "SyncLowLevel", "SyncHighLevel",
     "SyncBothEdges", "AsyncFallingEdge", "AsyncRisingEdge", "AsyncLowLevel",
     "AsyncHighLevel"}

InterruptModeCode(v) ==
    CASE v = "SyncFallingEdge" -> 0
      [] v = "SyncRisingEdge" -> 1
      [] v = "SyncLowLevel" -> 2
      [] v = "SyncHighLevel" -> 3
      [] v = "SyncBothEdges" -> 4
      [] v = "AsyncFallingEdge" -> 8
      [] v = "AsyncRisingEdge" -> 9
      [] v = "AsyncLowLevel" -> 10
      [] v = "AsyncHighLevel" -> 11

Mode == {"Normal", "SetClear", "Programmable", "BufferedSetClear"}

ModeCode(v) ==
    CASE v = "Normal" -> 0
      [] v = "SetClear" -> 1
      [] v = "Programmable" -> 2
      [] v = "BufferedSetClear" -> 3

Pull == {"None", "Up", "Down"}

PullCode(v) ==
    CASE v = "None" -> 0
      [] v = "Up" -> 1
      [] v = "Down" -> 2

\* What a decode yields when no arm of its match fits: unreachable!() panics.
Panic == "panic: unreachable!()"

----------------------------------------------------------------------------
\* GpioConfig: field masks

INPUT_ENABLE == Shl(AsU32(1), 0)

SCHMITT == Shl(AsU32(1), 1)

DRIVE == Shl(AsU32(3), 2)

PULL == Shl(AsU32(3), 4)

OUTPUT_ENABLE == Shl(AsU32(1), 6)

FUNCTION == Shl(AsU32(31), 8)

INTERRUPT_MODE == Shl(AsU32(15), 16)

CLEAR_INTERRUPT == Shl(AsU32(1), 20)

HAS_INTERRUPT == Shl(AsU32(1), 21)

INTERRUPT_MASK == Shl(AsU32(1), 22)

\* OUTPUT one position low, on the unassigned bit 23.
OUTPUT_at_23 == Shl(AsU32(1), 23)

OUTPUT == Shl(AsU32(1), 24)

SET == Shl(AsU32(1), 25)

CLEAR == Shl(AsU32(1), 26)

INPUT == Shl(AsU32(1), 28)

MODE == Shl(AsU32(3), 30)

\* #[derive(Default)] on GpioConfig(u32): the word 0.
GpioConfigDefault == {}

----------------------------------------------------------------------------
\* GpioConfig: flag, status and strobe accessors

enable_input(c) == BitOr(c, INPUT_ENABLE)

disable_input(c) == BitAnd(c, BitNot(INPUT_ENABLE))

is_input_enabled(c) == BitAnd(c, INPUT_ENABLE) # {}

enable_schmitt(c) == BitOr(c, SCHMITT)

disable_schmitt(c) == BitAnd(c, BitNot(SCHMITT))

is_schmitt_enabled(c) == BitAnd(c, SCHMITT) # {}

enable_output(c) == BitOr(c, OUTPUT_ENABLE)

disable_output(c) == BitAnd(c, BitNot(OUTPUT_ENABLE))

is_output_enabled(c) == BitAnd(c, OUTPUT_ENABLE) # {}

mask_interrupt(c) == BitOr(c, INTERRUPT_MASK)

unmask_interrupt(c) == BitAnd(c, BitNot(INTERRUPT_MASK))

\* The test inverted: == 0 for != 0.
is_interrupt_masked_inverted(c) == BitAnd(c, INTERRUPT_MASK) = {}

is_interrupt_masked(c) == BitAnd(c, INTERRUPT_MASK) # {}

output(c) == BitAnd(c, OUTPUT) # {}

input(c) == BitAnd(c, INPUT) # {}

has_interrupt(c) == BitAnd(c, HAS_INTERRUPT) # {}

set(c) == BitOr(c, SET)

\* clear() taking the SET bit out instead of putting the CLEAR bit in.
clear_unsets_set(c) == BitAnd(c, BitNot(SET))

clear(c) == BitOr(c, CLEAR)

clear_interrupt(c) == BitOr(c, CLEAR_INTERRUPT)

----------------------------------------------------------------------------
\* GpioConfig: enumerated fields

drive(c) ==
    LET k == ToNat(Shr(BitAnd(c, DRIVE), 2))
    IN CASE k = 0 -> "Drive0"
         [] k = 1 -> "Drive1"
         [] k = 2 -> "Drive2"
         [] k = 3 -> "Drive3"
         [] OTHER -> Panic

set_drive(c, v) == BitOr(BitAnd(c, BitNot(DRIVE)), Shl(AsU32(DriveCode(v)), 2))

\* The match without its last arm, 31 => Function::ClockOut.
function_without_clock_out(c) ==
    LET k == ToNat(Shr(BitAnd(c, FUNCTION), 8))
    IN CASE k = 0 -> "Sdh"
         [] k = 1 -> "Spi0"
         [] k = 2 -> "Flash"
         [] k = 3 -> "I2s"
         [] k = 4 -> "Pdm"
         [] k = 5 -> "I2c0"
         [] k = 6 -> "I2c1"
         [] k = 7 -> "Uart"
         [] k = 8 -> "Emac"
         [] k = 9 -> "Cam"
         [] k = 10 -> "Analog"
         [] k = 11 -> "Gpio"
         [] k = 16 -> "Pwm0"
         [] k = 17 -> "Pwm1"
         [] k = 18 -> "Spi1"
         [] k = 19 -> "I2c2"
         [] k = 20 -> "I2c3"
         [] k = 21 -> "MmUart"
         [] k = 22 -> "DbiB"
         [] k = 23 -> "DbiC"
         [] k = 24 -> "Dpi"
         [] k = 25 -> "JtagLp"
         [] k = 26 -> "JtagM0"
         [] k = 27 -> "JtagD0"
         [] OTHER -> Panic

function(c) ==
    LET k == ToNat(Shr(BitAnd(c, FUNCTION), 8))
    IN CASE k = 0 -> "Sdh"
         [] k = 1 -> "Spi0"
         [] k = 2 -> "Flash"
         [] k = 3 -> "I2s"
         [] k = 4 -> "Pdm"
         [] k = 5 -> "I2c0"
         [] k = 6 -> "I2c1"
         [] k = 7 -> "Uart"
         [] k = 8 -> "Emac"
         [] k = 9 -> "Cam"
         [] k = 10 -> "Analog"
         [] k = 11 -> "Gpio"
         [] k = 16 -> "Pwm0"
         [] k = 17 -> "Pwm1"
         [] k = 18 -> "Spi1"
         [] k = 19 -> "I2c2"
         [] k = 20 -> "I2c3"
         [] k = 21 -> "MmUart"
         [] k = 22 -> "DbiB"
         [] k = 23 -> "DbiC"
         [] k = 24 -> "Dpi"
         [] k = 25 -> "JtagLp"
         [] k = 26 -> "JtagM0"
         [] k = 27 -> "JtagD0"
         [] k = 31 -> "ClockOut"
         [] OTHER -> Panic

set_function(c, v) ==
    BitOr(BitAnd(c, BitNot(FUNCTION)), Shl(AsU32(FunctionCode(v)), 8))

interrupt_mode(c) ==
    LET k == ToNat(Shr(BitAnd(c, INTERRUPT_MODE), 16))
    IN CASE k = 0 -> "SyncFallingEdge"
         [] k = 1 -> "SyncRisingEdge"
         [] k = 2 -> "SyncLowLevel"
         [] k = 3 -> "SyncHighLevel"
         [] k = 4 -> "SyncBothEdges"
         [] k = 8 -> "AsyncFallingEdge"
         [] k = 9 -> "AsyncRisingEdge"
         [] k = 10 -> "AsyncLowLevel"
         [] k = 11 -> "AsyncHighLevel"
         [] OTHER -> Panic

\* The discriminant cut to three bits before the shift.
set_interrupt_mode_narrow(c, v) ==
    BitOr(BitAnd(c, BitNot(INTERRUPT_MODE)),
          Shl(BitAnd(AsU32(InterruptModeCode(v)), AsU32(7)), 16))

set_interrupt_mode(c, v) ==
    BitOr(BitAnd(c, BitNot(INTERRUPT_MODE)), Shl(AsU32(InterruptModeCode(v)), 16))

mode(c) ==
    LET k == ToNat(Shr(BitAnd(c, MODE), 30))
    IN CASE k = 0 -> "Normal"
         [] k = 1 -> "SetClear"
         [] k = 2 -> "Programmable"
         [] k = 3 -> "BufferedSetClear"
         [] OTHER -> Panic

set_mode(c, v) == BitOr(BitAnd(c, BitNot(MODE)), Shl(AsU32(ModeCode(v)), 30))

\* A match that ends in a default arm, _ => Pull::None.
pull_defaulting(c) ==
    LET k == ToNat(Shr(BitAnd(c, PULL), 4))
    IN CASE k = 0 -> "None"
         [] k = 1 -> "Up"
         [] k = 2 -> "Down"
         [] OTHER -> "None"

pull(c) ==
    LET k == ToNat(Shr(BitAnd(c, PULL), 4))
    IN CASE k = 0 -> "None"
         [] k = 1 -> "Up"
         [] k = 2 -> "Down"
         [] OTHER -> Panic

\* The shift of set_drive, 2, in place of 4.
set_pull_shift_2(c, v) == BitOr(BitAnd(c, BitNot(PULL)), Shl(AsU32(PullCode(v)), 2))

set_pull(c, v) == BitOr(BitAnd(c, BitNot(PULL)), Shl(AsU32(PullCode(v)), 4))

----------------------------------------------------------------------------
\* State

VARIABLES
    val,          \* the GpioConfig the caller holds
    origin,       \* where it came from: "default" or "read"
    before,       \* the GpioConfig the last mutator was applied to
    op,           \* the last mutator applied: [name, arg]
    ret,          \* the last getter called and what it returned: [fn, out]
    pc,           \* the caller's position
    gpio_config,  \* RegisterBlock.gpio_config: the 46 GPIO_CONFIG slots
    ref,          \* the register reference the caller holds: [field, index, addr]
    chain,        \* mutators composed since the caller got its GpioConfig
    strobed,      \* the strobe mutators among them
    base,         \* the GpioConfig the composition started from
    plain,        \* base under the composition's non-strobe mutators alone
    stores,       \* the volatile stores issued to the slots, in order
    rpc,          \* two actors sharing a slot: each one's position
    rval,         \* the GpioConfig each actor holds
    rmut,         \* the mutator each actor applies
    log           \* the bus transactions of the two actors, in order

codecVars == <<val, origin, before, op, ret>>

busVars == <<gpio_config, ref, chain, strobed, base, plain, stores>>

raceVars == <<rpc, rval, rmut, log>>

vars == <<val, origin, before, op, ret, pc, gpio_config, ref, chain, strobed,
          base, plain, stores, rpc, rval, rmut, log>>

\* Number of GPIO_CONFIG slots in RegisterBlock.
NumSlots == 46

NoOp == [name |-> "none", arg |-> "-"]

NoRet == [fn |-> "none", out |-> "-"]

NoRef == [field |-> "none", index |-> 0, addr |-> 0]

Actors == {"main", "isr"}

----------------------------------------------------------------------------
\* Input words

\* The fields of the word as (offset, width) pairs, for choosing inputs.
FieldShapes ==
    {<<0, 1>>, <<1, 1>>, <<2, 2>>, <<4, 2>>, <<6, 1>>, <<8, 5>>, <<16, 4>>,
     <<20, 1>>, <<21, 1>>, <<22, 1>>, <<24, 1>>, <<25, 1>>, <<26, 1>>,
     <<28, 1>>, <<30, 2>>}

\* A word holding the bit pattern k in the field at (off, width) and bg elsewhere.
Planted(k, off, width, bg) ==
    (bg \ (off .. (off + width - 1))) \cup Shl(AsU32(k), off)

\* Every bit pattern of every field, over an all-zeros and an all-ones
\* background, and the two alternating words 0x55555555 and 0xAAAAAAAA.
SampleWords ==
    UNION {{Planted(k, f[1], f[2], bg) : k \in 0 .. ((2 ^ f[2]) - 1), bg \in {{}, BitPos}}
           : f \in FieldShapes}
    \cup {{i \in BitPos : i % 2 = 0}, {i \in BitPos : i % 2 = 1}}

----------------------------------------------------------------------------
\* The codec on its own: a caller takes a GpioConfig (the default, or any
\* word a slot may hold), applies one mutator and calls one getter.

InitCodec ==
    /\ origin \in {"default", "read"}
    /\ val \in (IF origin = "default" THEN {GpioConfigDefault} ELSE SampleWords)
    /\ before = val
    /\ op = NoOp
    /\ ret = NoRet
    /\ pc = "fresh"
    /\ gpio_config = [i \in 0 .. (NumSlots - 1) |-> GpioConfigDefault]
    /\ ref = NoRef
    /\ chain = 0
    /\ strobed = {}
    /\ base = GpioConfigDefault
    /\ plain = GpioConfigDefault
    /\ stores = <<>>
    /\ rpc = [a \in Actors |-> "idle"]
    /\ rval = [a \in Actors |-> GpioConfigDefault]
    /\ rmut = [a \in Actors |-> NoOp]
    /\ log = <<>>

Mutate(name, arg, new) ==
    /\ pc = "fresh"
    /\ before' = val
    /\ val' = new
    /\ op' = [name |-> name, arg |-> arg]
    /\ pc' = "mutated"
    /\ UNCHANGED <<origin, ret, busVars, raceVars>>

GetFlag(name, out) ==
    /\ pc \in {"fresh", "mutated"}
    /\ ret' = [fn |-> name, out |-> out]
    /\ pc' = "decoded"
    /\ UNCHANGED <<val, origin, before, op, busVars, raceVars>>

GetEnum(name, out) ==
    /\ pc \in {"fresh", "mutated"}
    /\ ret' = [fn |-> name, out |-> out]
    /\ pc' = IF out = Panic THEN "panicked" ELSE "decoded"
    /\ UNCHANGED <<val, origin, before, op, busVars, raceVars>>

EnableInput == Mutate("enable_input", "-", enable_input(val))

DisableInput == Mutate("disable_input", "-", disable_input(val))

EnableSchmitt == Mutate("enable_schmitt", "-", enable_schmitt(val))

DisableSchmitt == Mutate("disable_schmitt", "-", disable_schmitt(val))

EnableOutput == Mutate("enable_output", "-", enable_output(val))

DisableOutput == Mutate("disable_output", "-", disable_output(val))

MaskInterrupt == Mutate("mask_interrupt", "-", mask_interrupt(val))

UnmaskInterrupt == Mutate("unmask_interrupt", "-", unmask_interrupt(val))

SetStrobe == Mutate("set", "-", set(val))

ClearStrobe == Mutate("clear", "-", clear(val))

ClearInterrupt == Mutate("clear_interrupt", "-", clear_interrupt(val))

SetDrive == \E v \in Drive : Mutate("set_drive", v, set_drive(val, v))

SetPull == \E v \in Pull : Mutate("set_pull", v, set_pull(val, v))

SetFunction == \E v \in Function : Mutate("set_function", v, set_function(val, v))

SetInterruptMode ==
    \E v \in InterruptMode : Mutate("set_interrupt_mode", v, set_interrupt_mode(val, v))

SetMode == \E v \in Mode : Mutate("set_mode", v, set_mode(val, v))

IsInputEnabled == GetFlag("is_input_enabled", is_input_enabled(val))

IsSchmittEnabled == GetFlag("is_schmitt_enabled", is_schmitt_enabled(val))

IsOutputEnabled == GetFlag("is_output_enabled", is_output_enabled(val))

IsInterruptMasked == GetFlag("is_interrupt_masked", is_interrupt_masked(val))

GetOutput == GetFlag("output", output(val))

GetInput == GetFlag("input", input(val))

HasInterrupt == GetFlag("has_interrupt", has_interrupt(val))

GetDrive == GetEnum("drive", drive(val))

GetPull == GetEnum("pull", pull(val))

GetFunction == GetEnum("function", function(val))

GetInterruptMode == GetEnum("interrupt_mode", interrupt_mode(val))

GetMode == GetEnum("mode", mode(val))

NextCodec ==
    \/ EnableInput \/ DisableInput \/ EnableSchmitt \/ DisableSchmitt
    \/ EnableOutput \/ DisableOutput \/ MaskInterrupt \/ UnmaskInterrupt
    \/ SetStrobe \/ ClearStrobe \/ ClearInterrupt
    \/ SetDrive \/ SetPull \/ SetFunction \/ SetInterruptMode \/ SetMode
    \/ IsInputEnabled \/ IsSchmittEnabled \/ IsOutputEnabled \/ IsInterruptMasked
    \/ GetOutput \/ GetInput \/ HasInterrupt
    \/ GetDrive \/ GetPull \/ GetFunction \/ GetInterruptMode \/ GetMode

SpecCodec == InitCodec /\ [][NextCodec]_vars

----------------------------------------------------------------------------
\* RegisterBlock: #[repr(C)] layout

\* The fields in declaration order: element size and alignment in bytes, and
\* the number of elements (0x8c4 = 2244, 0x148 = 328, 0x18 = 24).
RegisterBlockFields_without_reserved2 ==
    << [name |-> "_reserved0", size |-> 1, align |-> 1, len |-> 2244],
       [name |-> "gpio_config", size |-> 4, align |-> 4, len |-> 46],
       [name |-> "_reserved1", size |-> 1, align |-> 1, len |-> 328],
       [name |-> "gpio_input", size |-> 4, align |-> 4, len |-> 2],
       [name |-> "gpio_output", size |-> 4, align |-> 4, len |-> 2],
       [name |-> "gpio_set", size |-> 4, align |-> 4, len |-> 2],
       [name |-> "gpio_clear", size |-> 4, align |-> 4, len |-> 2] >>

RegisterBlockFields ==
    << [name |-> "_reserved0", size |-> 1, align |-> 1, len |-> 2244],
       [name |-> "gpio_config", size |-> 4, align |-> 4, len |-> 46],
       [name |-> "_reserved1", size |-> 1, align |-> 1, len |-> 328],
       [name |-> "gpio_input", size |-> 4, align |-> 4, len |-> 2],
       [name |-> "_reserved2", size |-> 1, align |-> 1, len |-> 24],
       [name |-> "gpio_output", size |-> 4, align |-> 4, len |-> 2],
       [name |-> "gpio_set", size |-> 4, align |-> 4, len |-> 2],
       [name |-> "gpio_clear", size |-> 4, align |-> 4, len |-> 2] >>

\* n rounded up to a multiple of a.
AlignUp(n, a) == ((n + a - 1) \div a) * a

RECURSIVE OffsetOf(_)
\* Byte offset of the k-th field: each field starts at the end of the one
\* before it, rounded up to its own alignment.
OffsetOf(k) ==
    IF k = 1 THEN 0
    ELSE LET p == RegisterBlockFields[k - 1]
         IN AlignUp(OffsetOf(k - 1) + p.size * p.len, RegisterBlockFields[k].align)

FieldIndex(name) ==
    CHOOSE k \in 1 .. Len(RegisterBlockFields) : RegisterBlockFields[k].name = name

\* size_of::<RegisterBlock>(): the end of the last field, rounded up to the
\* block's alignment (the largest alignment of a field).
BlockSize ==
    LET n == Len(RegisterBlockFields)
        f == RegisterBlockFields[n]
    IN AlignUp(OffsetOf(n) + f.size * f.len, 4)

\* Byte offset, from the block's base, of element i of the named field.
AddressOf(name, i) ==
    OffsetOf(FieldIndex(name)) + i * RegisterBlockFields[FieldIndex(name)].size

\* The register arrays (the fields that are not reserved bytes).
RegisterFields == {"gpio_config", "gpio_input", "gpio_output", "gpio_set", "gpio_clear"}

----------------------------------------------------------------------------
\* GPIO_CONFIG: volatile access to one slot

GPIO_CONFIG_read(slots, i) == slots[i]

\* A store that ors into the slot instead of replacing it.
GPIO_CONFIG_write_or(slots, i, v) == [slots EXCEPT ![i] = BitOr(@, v)]

GPIO_CONFIG_write(slots, i, v) == [slots EXCEPT ![i] = v]

----------------------------------------------------------------------------
\* Mutators and getters by name

StrobeNames == {"set", "clear", "clear_interrupt"}

PlainNames ==
    {"enable_input", "disable_input", "enable_schmitt", "disable_schmitt",
     "enable_output", "disable_output", "mask_interrupt", "unmask_interrupt"}

Mutators ==
    {[name |-> n, arg |-> "-"] : n \in PlainNames \cup StrobeNames}
    \cup {[name |-> "set_drive", arg |-> v] : v \in Drive}
    \cup {[name |-> "set_pull", arg |-> v] : v \in Pull}
    \cup {[name |-> "set_function", arg |-> v] : v \in Function}
    \cup {[name |-> "set_interrupt_mode", arg |-> v] : v \in InterruptMode}
    \cup {[name |-> "set_mode", arg |-> v] : v \in Mode}

Apply(m, c) ==
    CASE m.name = "enable_input" -> enable_input(c)
      [] m.name = "disable_input" -> disable_input(c)
      [] m.name = "enable_schmitt" -> enable_schmitt(c)
      [] m.name = "disable_schmitt" -> disable_schmitt(c)
      [] m.name = "enable_output" -> enable_output(c)
      [] m.name = "disable_output" -> disable_output(c)
      [] m.name = "mask_interrupt" -> mask_interrupt(c)
      [] m.name = "unmask_interrupt" -> unmask_interrupt(c)
      [] m.name = "set" -> set(c)
      [] m.name = "clear" -> clear(c)
      [] m.name = "clear_interrupt" -> clear_interrupt(c)
      [] m.name = "set_drive" -> set_drive(c, m.arg)
      [] m.name = "set_pull" -> set_pull(c, m.arg)
      [] m.name = "set_function" -> set_function(c, m.arg)
      [] m.name = "set_interrupt_mode" -> set_interrupt_mode(c, m.arg)
      [] m.name = "set_mode" -> set_mode(c, m.arg)

Getters ==
    {"is_input_enabled", "is_schmitt_enabled", "is_output_enabled",
     "is_interrupt_masked", "output", "input", "has_interrupt", "drive", "pull",
     "function", "interrupt_mode", "mode"}

Decode(g, c) ==
    CASE g = "is_input_enabled" -> is_input_enabled(c)
      [] g = "is_schmitt_enabled" -> is_schmitt_enabled(c)
      [] g = "is_output_enabled" -> is_output_enabled(c)
      [] g = "is_interrupt_masked" -> is_interrupt_masked(c)
      [] g = "output" -> output(c)
      [] g = "input" -> input(c)
      [] g = "has_interrupt" -> has_interrupt(c)
      [] g = "drive" -> drive(c)
      [] g = "pull" -> pull(c)
      [] g = "function" -> function(c)
      [] g = "interrupt_mode" -> interrupt_mode(c)
      [] g = "mode" -> mode(c)

Panics(g, c) ==
    /\ g \in {"drive", "pull", "function", "interrupt_mode", "mode"}
    /\ Decode(g, c) = Panic

----------------------------------------------------------------------------
\* One caller on the bus: it takes a reference to a register, reads the slot
\* (or starts from the default GpioConfig), decodes it or composes mutators,
\* writes the result back with one store and reads the slot again.

\* Longest composition of mutators before the write.
MaxChain == 2

\* The caller uses the slots 0..MaxPin and the last one.
MaxPin == 0

Pins == (0 .. MaxPin) \cup {NumSlots - 1}

StrobeBits == CLEAR_INTERRUPT \cup SET \cup CLEAR

\* What the slots hold at the start: every bit but the strobes, or
\* 0x55555555 (which holds the strobes 20 and 26). The word 0 comes in as
\* the default GpioConfig.
BusWords == {BitPos \ {20, 25, 26}, {i \in BitPos : i % 2 = 0}}

InitBus ==
    /\ \E w \in BusWords : gpio_config = [i \in 0 .. (NumSlots - 1) |-> w]
    /\ val = GpioConfigDefault
    /\ origin = "none"
    /\ before = GpioConfigDefault
    /\ op = NoOp
    /\ ret = NoRet
    /\ pc = "idle"
    /\ ref = NoRef
    /\ chain = 0
    /\ strobed = {}
    /\ base = GpioConfigDefault
    /\ plain = GpioConfigDefault
    /\ stores = <<>>
    /\ rpc = [a \in Actors |-> "idle"]
    /\ rval = [a \in Actors |-> GpioConfigDefault]
    /\ rmut = [a \in Actors |-> NoOp]
    /\ log = <<>>

\* &regs.<field>[i]
TakeRef(field, i) ==
    /\ pc = "idle"
    /\ ref' = [field |-> field, index |-> i, addr |-> AddressOf(field, i)]
    /\ pc' = "ref"
    /\ UNCHANGED <<codecVars, gpio_config, chain, strobed, base, plain, stores, raceVars>>

RefConfig == \E i \in Pins : TakeRef("gpio_config", i)

RefStatus ==
    \E f \in RegisterFields \ {"gpio_config"}, i \in 0 .. 1 : TakeRef(f, i)

Hold(c, from) ==
    /\ pc = "ref"
    /\ ref.field = "gpio_config"
    /\ val' = c
    /\ base' = c
    /\ plain' = c
    /\ origin' = from
    /\ pc' = "held"
    /\ UNCHANGED <<before, op, ret, gpio_config, ref, chain, strobed, stores, raceVars>>

Read == Hold(GPIO_CONFIG_read(gpio_config, ref.index), "read")

Default == Hold(GpioConfigDefault, "default")

\* A getter on the word just read.
Inspect ==
    /\ pc = "held"
    /\ chain = 0
    /\ \E g \in Getters :
          /\ ret' = [fn |-> g, out |-> Decode(g, val)]
          /\ pc' = IF Panics(g, val) THEN "panicked" ELSE "decoded"
    /\ UNCHANGED <<val, origin, before, op, busVars, raceVars>>

Compose ==
    /\ pc = "held"
    /\ chain < MaxChain
    /\ \E m \in Mutators :
          /\ val' = Apply(m, val)
          /\ strobed' = strobed \cup ({m.name} \cap StrobeNames)
          /\ plain' = IF m.name \in StrobeNames THEN plain ELSE Apply(m, plain)
    /\ chain' = chain + 1
    /\ UNCHANGED <<origin, before, op, ret, pc, gpio_config, ref, base, stores, raceVars>>

Write ==
    /\ pc = "held"
    /\ gpio_config' = GPIO_CONFIG_write(gpio_config, ref.index, val)
    /\ stores' = Append(stores, [index |-> ref.index, addr |-> ref.addr, word |-> val])
    /\ pc' = "wrote"
    /\ UNCHANGED <<codecVars, ref, chain, strobed, base, plain, raceVars>>

ReadBack ==
    /\ pc = "wrote"
    /\ val' = GPIO_CONFIG_read(gpio_config, ref.index)
    /\ pc' = "readback"
    /\ UNCHANGED <<origin, before, op, ret, busVars, raceVars>>

NextBus ==
    \/ RefConfig \/ RefStatus \/ Read \/ Default \/ Inspect \/ Compose
    \/ Write \/ ReadBack

SpecBus == InitBus /\ [][NextBus]_vars

----------------------------------------------------------------------------
\* Two actors (main control flow and an interrupt handler) on one slot: each
\* reads the slot, applies one mutator and writes the result back. Nothing
\* orders the two sequences.

\* The slot the two actors share.
RacePin == 8

\* What the shared slot holds at the start: 0 and 0x55555555.
RaceWords == {{}, {i \in BitPos : i % 2 = 0}}

InitRace ==
    /\ \E w \in RaceWords :
          /\ gpio_config = [i \in 0 .. (NumSlots - 1) |-> w]
          /\ base = w
    /\ val = GpioConfigDefault
    /\ origin = "none"
    /\ before = GpioConfigDefault
    /\ op = NoOp
    /\ ret = NoRet
    /\ pc = "idle"
    /\ ref = [field |-> "gpio_config", index |-> RacePin,
              addr |-> AddressOf("gpio_config", RacePin)]
    /\ chain = 0
    /\ strobed = {}
    /\ plain = GpioConfigDefault
    /\ stores = <<>>
    /\ rpc = [a \in Actors |-> "idle"]
    /\ rval = [a \in Actors |-> GpioConfigDefault]
    /\ rmut = [a \in Actors |-> NoOp]
    /\ log = <<>>

RaceRead(a) ==
    /\ rpc[a] = "idle"
    /\ rval' = [rval EXCEPT ![a] = GPIO_CONFIG_read(gpio_config, ref.index)]
    /\ log' = Append(log, [actor |-> a, kind |-> "read"])
    /\ rpc' = [rpc EXCEPT ![a] = "read"]
    /\ UNCHANGED <<codecVars, pc, busVars, rmut>>

RaceModify(a) ==
    /\ rpc[a] = "read"
    /\ \E m \in Mutators :
          /\ rval' = [rval EXCEPT ![a] = Apply(m, rval[a])]
          /\ rmut' = [rmut EXCEPT ![a] = m]
    /\ rpc' = [rpc EXCEPT ![a] = "modified"]
    /\ UNCHANGED <<codecVars, pc, busVars, log>>

RaceWrite(a) ==
    /\ rpc[a] = "modified"
    /\ gpio_config' = GPIO_CONFIG_write(gpio_config, ref.index, rval[a])
    /\ stores' = Append(stores, [index |-> ref.index, addr |-> ref.addr, word |-> rval[a]])
    /\ log' = Append(log, [actor |-> a, kind |-> "write"])
    /\ rpc' = [rpc EXCEPT ![a] = "done"]
    /\ UNCHANGED <<codecVars, pc, ref, chain, strobed, base, plain, rval, rmut>>

NextRace == \E a \in Actors : RaceRead(a) \/ RaceModify(a) \/ RaceWrite(a)

SpecRace == InitRace /\ [][NextRace]_vars

----------------------------------------------------------------------------
\* The documented bit layout, as positions: what the properties below are
\* stated against.

FieldAt(off, width) == off .. (off + width - 1)

\* The field a mutator writes.
OwnField(name) ==
    CASE name \in {"enable_input", "disable_input"} -> FieldAt(0, 1)
      [] name \in {"enable_schmitt", "disable_schmitt"} -> FieldAt(1, 1)
      [] name = "set_drive" -> FieldAt(2, 2)
      [] name = "set_pull" -> FieldAt(4, 2)
      [] name \in {"enable_output", "disable_output"} -> FieldAt(6, 1)
      [] name = "set_function" -> FieldAt(8, 5)
      [] name = "set_interrupt_mode" -> FieldAt(16, 4)
      [] name = "clear_interrupt" -> FieldAt(20, 1)
      [] name \in {"mask_interrupt", "unmask_interrupt"} -> FieldAt(22, 1)
      [] name = "set" -> FieldAt(25, 1)
      [] name = "clear" -> FieldAt(26, 1)
      [] name = "set_mode" -> FieldAt(30, 2)

\* The bit pattern a word holds in the field at (off, width), as a number.
FieldCode(w, off, width) == ToNat({i \in 0 .. (width - 1) : (off + i) \in w})

\* The word k << off, for a code k below 256.
Placed(k, off) == {off + i : i \in {j \in 0 .. 7 : (k \div (2 ^ j)) % 2 = 1}}

ReservedPull == {3}

ReservedInterruptMode == {5, 6, 7, 12, 13, 14, 15}

ReservedFunction == {12, 13, 14, 15, 28, 29, 30}

\* The 5-bit patterns function() decodes to a variant.
DecodedFunctionCodes ==
    {k \in 0 .. 31 : function(Placed(k, 8)) \in Function}

----------------------------------------------------------------------------
\* C1: field independence. After any mutator m on any word c, m(c) differs
\* from c only inside the bits of m's own field, and every getter of another
\* field returns on m(c) what it returns on c.
C1_FieldIndependence ==
    (pc = "mutated") =>
        LET F == OwnField(op.name)
        IN /\ val \ F = before \ F
           /\ F # FieldAt(0, 1) => is_input_enabled(val) = is_input_enabled(before)
           /\ F # FieldAt(1, 1) => is_schmitt_enabled(val) = is_schmitt_enabled(before)
           /\ F # FieldAt(2, 2) => drive(val) = drive(before)
           /\ F # FieldAt(4, 2) => pull(val) = pull(before)
           /\ F # FieldAt(6, 1) => is_output_enabled(val) = is_output_enabled(before)
           /\ F # FieldAt(8, 5) => function(val) = function(before)
           /\ F # FieldAt(16, 4) => interrupt_mode(val) = interrupt_mode(before)
           /\ F # FieldAt(21, 1) => has_interrupt(val) = has_interrupt(before)
           /\ F # FieldAt(22, 1) => is_interrupt_masked(val) = is_interrupt_masked(before)
           /\ F # FieldAt(24, 1) => output(val) = output(before)
           /\ F # FieldAt(28, 1) => input(val) = input(before)
           /\ F # FieldAt(30, 2) => mode(val) = mode(before)

\* A mutator changed its field in a word whose other bits are mixed.
C1_Witness ==
    /\ pc = "mutated"
    /\ op.name = "set_function"
    /\ val # before
    /\ 21 \in val
    /\ 24 \notin val

\* C2: reserved-code rejection. pull() on a word whose bits 4..5 hold 3,
\* interrupt_mode() on bits 16..19 in {5,6,7,12,13,14,15} and function() on
\* bits 8..12 in {12,13,14,15,28,29,30} panic and return no value.
C2_ReservedCodeRejection ==
    /\ (ret.fn = "pull" /\ FieldCode(val, 4, 2) \in ReservedPull)
          => (ret.out = Panic /\ pc = "panicked")
    /\ (ret.fn = "interrupt_mode" /\ FieldCode(val, 16, 4) \in ReservedInterruptMode)
          => (ret.out = Panic /\ pc = "panicked")
    /\ (ret.fn = "function" /\ FieldCode(val, 8, 5) \in ReservedFunction)
          => (ret.out = Panic /\ pc = "panicked")

\* function() was called on a word holding the reserved pattern 28.
C2_Witness ==
    /\ ret.fn = "function"
    /\ FieldCode(val, 8, 5) = 28
    /\ pc = "panicked"

\* C3: round trip. From the default GpioConfig, a setter of an enumerated
\* field followed by the field's getter returns the variant that was set.
C3_RoundTrip ==
    (origin = "default" /\ pc \in {"decoded", "panicked"}) =>
        /\ (op.name = "set_drive" /\ ret.fn = "drive") => ret.out = op.arg
        /\ (op.name = "set_pull" /\ ret.fn = "pull") => ret.out = op.arg
        /\ (op.name = "set_mode" /\ ret.fn = "mode") => ret.out = op.arg
        /\ (op.name = "set_interrupt_mode" /\ ret.fn = "interrupt_mode")
              => ret.out = op.arg
        /\ (op.name = "set_function" /\ ret.fn = "function") => ret.out = op.arg

\* The last variant of the sparsest enumeration made the round trip.
C3_Witness ==
    /\ origin = "default"
    /\ op = [name |-> "set_interrupt_mode", arg |-> "AsyncHighLevel"]
    /\ ret = [fn |-> "interrupt_mode", out |-> "AsyncHighLevel"]

\* C4: bit layout. Every mask is the field of the documented table, the
\* masks are pairwise disjoint, a mutator on the default word produces
\* exactly its bit (or its code shifted to its offset), and the three status
\* getters read bits 21, 24 and 28.
C4_BitLayout ==
    LET masks == <<INPUT_ENABLE, SCHMITT, DRIVE, PULL, OUTPUT_ENABLE, FUNCTION,
                   INTERRUPT_MODE, CLEAR_INTERRUPT, HAS_INTERRUPT, INTERRUPT_MASK,
                   OUTPUT, SET, CLEAR, INPUT, MODE>>
        table == <<FieldAt(0, 1), FieldAt(1, 1), FieldAt(2, 2), FieldAt(4, 2),
                   FieldAt(6, 1), FieldAt(8, 5), FieldAt(16, 4), FieldAt(20, 1),
                   FieldAt(21, 1), FieldAt(22, 1), FieldAt(24, 1), FieldAt(25, 1),
                   FieldAt(26, 1), FieldAt(28, 1), FieldAt(30, 2)>>
    IN /\ masks = table
       /\ \A i, j \in 1 .. 15 : i # j => masks[i] \cap masks[j] = {}
       /\ (origin = "default" /\ pc = "mutated") =>
             /\ op.name = "enable_input" => val = {0}
             /\ op.name = "enable_schmitt" => val = {1}
             /\ op.name = "enable_output" => val = {6}
             /\ op.name = "clear_interrupt" => val = {20}
             /\ op.name = "mask_interrupt" => val = {22}
             /\ op.name = "set" => val = {25}
             /\ op.name = "clear" => val = {26}
             /\ op.name = "set_drive" => val = Placed(DriveCode(op.arg), 2)
             /\ op.name = "set_pull" => val = Placed(PullCode(op.arg), 4)
             /\ op.name = "set_function" => val = Placed(FunctionCode(op.arg), 8)
             /\ op.name = "set_interrupt_mode"
                   => val = Placed(InterruptModeCode(op.arg), 16)
             /\ op.name = "set_mode" => val = Placed(ModeCode(op.arg), 30)
       /\ ret.fn = "has_interrupt" => ret.out = (21 \in val)
       /\ ret.fn = "output" => ret.out = (24 \in val)
       /\ ret.fn = "input" => ret.out = (28 \in val)

\* set_mode(BufferedSetClear) on the default word gave bits 30 and 31.
C4_Witness ==
    /\ origin = "default"
    /\ pc = "mutated"
    /\ op = [name |-> "set_mode", arg |-> "BufferedSetClear"]
    /\ val = {30, 31}

\* C5: default decode. The default GpioConfig is the word 0, and every
\* getter on it returns false or the variant with code 0, none panicking.
C5_DefaultDecode ==
    (origin = "default" /\ op = NoOp) =>
        /\ val = {}
        /\ pc # "panicked"
        /\ ret.fn = "is_input_enabled" => ret.out = FALSE
        /\ ret.fn = "is_schmitt_enabled" => ret.out = FALSE
        /\ ret.fn = "drive" => ret.out = "Drive0"
        /\ ret.fn = "pull" => ret.out = "None"
        /\ ret.fn = "is_output_enabled" => ret.out = FALSE
        /\ ret.fn = "function" => (ret.out = "Sdh" /\ FunctionCode(ret.out) = 0)
        /\ ret.fn = "interrupt_mode"
              => (ret.out = "SyncFallingEdge" /\ InterruptModeCode(ret.out) = 0)
        /\ ret.fn = "mode" => ret.out = "Normal"
        /\ ret.fn = "is_interrupt_masked" => ret.out = FALSE
        /\ ret.fn = "has_interrupt" => ret.out = FALSE
        /\ ret.fn = "output" => ret.out = FALSE
        /\ ret.fn = "input" => ret.out = FALSE

\* function() decoded the default word.
C5_Witness ==
    /\ origin = "default"
    /\ op = NoOp
    /\ pc = "decoded"
    /\ ret = [fn |-> "function", out |-> "Sdh"]

\* C7 as stated: of the 32 patterns of the alternate-function field exactly
\* 24 decode to a variant, and Function has exactly 24 variants.
C7_Original ==
    (ret.fn = "function") =>
        /\ Cardinality(DecodedFunctionCodes) = 24
        /\ Cardinality(Function) = 24

\* C7 amended: exactly 25 of the 32 patterns decode to a variant and
\* Function has exactly 25 variants; the other 7 patterns,
\* {12,13,14,15,28,29,30}, are rejected. A call of function() returns a
\* variant exactly when the field holds none of those 7.
C7_FunctionCodeSpace ==
    (ret.fn = "function") =>
        /\ Cardinality(DecodedFunctionCodes) = 25
        /\ Cardinality(Function) = 25
        /\ DecodedFunctionCodes = (0 .. 31) \ ReservedFunction
        /\ {FunctionCode(v) : v \in Function} = DecodedFunctionCodes
        /\ (ret.out \in Function) <=> (FieldCode(val, 8, 5) \notin ReservedFunction)
        /\ (ret.out = Panic) <=> (FieldCode(val, 8, 5) \in ReservedFunction)

\* function() decoded the highest pattern, 31, over a word of all ones.
C7_Witness ==
    /\ ret = [fn |-> "function", out |-> "ClockOut"]
    /\ val = BitPos
    /\ pc = "decoded"

----------------------------------------------------------------------------
\* The bytes of the block that belong to a register, and the rest.

RegisterBytes ==
    UNION {AddressOf(RegisterBlockFields[k].name, 0) ..
               (AddressOf(RegisterBlockFields[k].name, RegisterBlockFields[k].len) - 1)
           : k \in {j \in 1 .. Len(RegisterBlockFields)
                       : RegisterBlockFields[j].name \in RegisterFields}}

ReservedBytes == (0 .. (BlockSize - 1)) \ RegisterBytes

\* C6 as stated: slot i is at 0x8C4 + 4*i, and after the 0x148 reserved
\* bytes the four 2-word arrays are back to back: input at 0xAC4, output at
\* 0xACC, set at 0xAD4, clear at 0xADC.
C6_Original ==
    /\ ref.field = "gpio_config" => ref.addr = 2244 + 4 * ref.index
    /\ ref.field = "gpio_input" => ref.addr = 2756 + 4 * ref.index
    /\ ref.field = "gpio_output" => ref.addr = 2764 + 4 * ref.index
    /\ ref.field = "gpio_set" => ref.addr = 2772 + 4 * ref.index
    /\ ref.field = "gpio_clear" => ref.addr = 2780 + 4 * ref.index

\* C6 amended: slot i is at 0x8C4 + 4*i (2244 + 4*i); the 0x148 reserved
\* bytes follow the last slot; input is at 0xAC4 (2756); a third reserved
\* region of 0x18 bytes, [0xACC, 0xAE4), follows it; output, set and clear
\* are back to back at 0xAE4 (2788), 0xAEC (2796) and 0xAF4 (2804). The
\* block has no gap other than the three reserved regions [0, 0x8C4),
\* [0x97C, 0xAC4) and [0xACC, 0xAE4), and ends at 0xAFC (2812).
C6_RegisterMapLayout ==
    /\ ref.field = "gpio_config" => ref.addr = 2244 + 4 * ref.index
    /\ ref.field = "gpio_input" => ref.addr = 2756 + 4 * ref.index
    /\ ref.field = "gpio_output" => ref.addr = 2788 + 4 * ref.index
    /\ ref.field = "gpio_set" => ref.addr = 2796 + 4 * ref.index
    /\ ref.field = "gpio_clear" => ref.addr = 2804 + 4 * ref.index
    /\ (pc = "ref") =>
          /\ \A i \in 0 .. (NumSlots - 1) : AddressOf("gpio_config", i) = 2244 + 4 * i
          /\ BlockSize = 2812
          /\ ReservedBytes = (0 .. 2243) \cup (2428 .. 2755) \cup (2764 .. 2787)

\* A reference to the last word of the last array was taken.
C6_Witness ==
    /\ ref.field = "gpio_clear"
    /\ ref.index = 1
    /\ ref.addr = 2808
    /\ pc = "ref"

\* C8: hardware side effects only on write-back. A slot's content changes
\* only in a step that stores to that slot; the store makes the slot hold
\* exactly the written word and leaves every other slot alone; reads,
\* getters and mutators leave all slots unchanged; and the read that follows
\* a write returns the written word.
C8_WriteBackOnly ==
    [][/\ \A i \in 0 .. (NumSlots - 1) :
             gpio_config'[i] # gpio_config[i] =>
                 /\ pc = "held" /\ pc' = "wrote"
                 /\ Len(stores') = Len(stores) + 1
                 /\ stores'[Len(stores')].index = i
                 /\ stores'[Len(stores')].word = gpio_config'[i]
       /\ (pc = "held" /\ pc' = "wrote") =>
             /\ gpio_config'[ref.index] = val
             /\ \A j \in 0 .. (NumSlots - 1) :
                   j # ref.index => gpio_config'[j] = gpio_config[j]
       /\ (pc = "wrote" /\ pc' = "readback") =>
             /\ val' = val
             /\ val' = stores[Len(stores)].word
       /\ (pc' # "wrote") => gpio_config' = gpio_config]_vars

\* A changed word was written to the last slot and read back, the other
\* slots still holding what they held at the start.
C8_Witness ==
    /\ pc = "readback"
    /\ origin = "read"
    /\ ref.index = NumSlots - 1
    /\ val # base
    /\ val = gpio_config[ref.index]
    /\ \A j \in 0 .. (NumSlots - 2) : gpio_config[j] = base

\* C9: unsynchronized read-modify-write races. When both actors have run
\* read -> mutator -> write on the shared slot, on different fields and each
\* to a value the slot did not hold, the slot ends with both changes exactly
\* when the sequences did not overlap; when both reads came before both
\* writes the change of the first writer is lost. No step of an actor waits
\* for the other actor.
C9_RaceLosesUpdate ==
    /\ \A a \in Actors :
          /\ rpc[a] = "idle" => ENABLED RaceRead(a)
          /\ rpc[a] = "read" => ENABLED RaceModify(a)
          /\ rpc[a] = "modified" => ENABLED RaceWrite(a)
    /\ (\A a \in Actors : rpc[a] = "done") =>
          LET F(a) == OwnField(rmut[a].name)
              was(a) == base \cap F(a)
              target(a) == Apply(rmut[a], base) \cap F(a)
              final == gpio_config[ref.index]
              both == \A a \in Actors : final \cap F(a) = target(a)
              serial == log[1].actor = log[2].actor
              overlap == log[1].kind = "read" /\ log[2].kind = "read"
              first == log[3].actor
          IN (F("main") # F("isr") /\ \A a \in Actors : target(a) # was(a)) =>
                /\ both <=> serial
                /\ serial <=> ~overlap
                /\ overlap =>
                      /\ final \cap F(first) = was(first)
                      /\ final \cap F(first) # target(first)
                      /\ final = rval[log[4].actor]

\* Both reads came before both writes, and the first writer's change (the
\* function field, set to Gpio) is not in the slot.
C9_Witness ==
    /\ \A a \in Actors : rpc[a] = "done"
    /\ log[1].kind = "read"
    /\ log[2].kind = "read"
    /\ log[3].actor = "main"
    /\ rmut["main"] = [name |-> "set_function", arg |-> "Gpio"]
    /\ rmut["isr"] = [name |-> "clear_interrupt", arg |-> "-"]
    /\ base = {}
    /\ gpio_config[ref.index] = {20}

\* C10: a strobe composed with other field changes fires exactly once. From
\* a GpioConfig whose strobe bits 20, 25 and 26 are 0, one strobe mutator
\* composed with non-strobe mutators in any order gives a word with that
\* strobe's bit 1 and the other two strobe bits 0, equal to the non-strobe
\* changes plus the strobe bit; the write is one store of that word, the
\* only store that carries the strobe.
C10_StrobeOnce ==
    (/\ pc \in {"held", "wrote", "readback"}
     /\ base \cap {20, 25, 26} = {}
     /\ Cardinality(strobed) = 1) =>
        LET bit == OwnField(CHOOSE n \in strobed : TRUE)
        IN /\ val \cap {20, 25, 26} = bit
           /\ val = plain \cup bit
           /\ pc \in {"wrote", "readback"} =>
                 /\ Len(stores) = 1
                 /\ stores[1].word = val
                 /\ stores[1].index = ref.index
                 /\ gpio_config[ref.index] = val
                 /\ Cardinality({k \in 1 .. Len(stores) : bit \subseteq stores[k].word}) = 1

\* The set strobe and one other field change went out in one store.
C10_Witness ==
    /\ pc = "wrote"
    /\ base \cap {20, 25, 26} = {}
    /\ strobed = {"set"}
    /\ chain = 2
    /\ plain # base
    /\ Len(stores) = 1
    /\ stores[1].word = plain \cup {25}

====
